---- MODULE Spec2Model ----
(***************************************************************************)
(* CourtEase backend (src/app.js): a model of the adapters and route       *)
(* handlers.  The source file holds two route sets (lines 1-1097 and       *)
(* 1099-1511); handlers of the second set carry the suffix 2.              *)
(*                                                                         *)
(* Strings that the code inspects or rewrites (AI response texts) are      *)
(* sequences of tokens; JavaScript values are records tagged by t.         *)
(***************************************************************************)
EXTENDS Integers, Sequences, FiniteSets, TLC

VARIABLES
    routeSet,           \* which of the two programs of the file is running: 1 or 2
    IS_FIREBASE_LIVE,   \* app.js:47 / 1141, fixed at start-up
    CONFIG,             \* which configuration keys are present (app.js:32-40, 978, 1134)
    aiCall,             \* the adapter / AI route call being handled and the upstream outcomes it met
    aiRet,              \* what the adapter handed to its caller (the route handler)
    aiResp,             \* the HTTP response of the route, or NoResponse
    extCalls,           \* the external calls made while handling it, in order
    accounts,           \* identity provider: the accounts, in order of creation
    users,              \* document store, collection users: uid -> profile record
    MOCK_DB,            \* app.js:79, the in-memory user list of mock mode
    mailCalls,          \* the calls of sendMail, in order
    authCall,           \* the last register / login request
    authResp,           \* and its HTTP response
    cases,              \* document store, collection cases: case id -> case record
    reqs,               \* the case-route requests, in order of arrival, each with its position and response
    landed,             \* the requests whose write reached the store, in the order the writes landed
    now                 \* Date.now()

aiVars == <<aiCall, aiRet, aiResp, extCalls>>
authVars == <<accounts, users, MOCK_DB, mailCalls, authCall, authResp>>
caseVars == <<cases, reqs, landed, now>>
vars == <<routeSet, IS_FIREBASE_LIVE, CONFIG, aiCall, aiRet, aiResp, extCalls,
          accounts, users, MOCK_DB, mailCalls, authCall, authResp, cases, reqs, landed, now>>

(***************************************************************************)
(* Bounds                                                                  *)
(***************************************************************************)
MaxStr == 1     \* tokens inside the string value of an upstream JSON object
MaxDocs == 2    \* documents in an upstream search result
MaxMock == 2    \* entries of MOCK_DB.users
MaxReqs == 2    \* case-route requests in one behaviour
MaxClock == 2   \* the last clock value

(***************************************************************************)
(* Token strings                                                           *)
(***************************************************************************)
\* FENCE stands for three backticks, the markdown code fence
FENCE == "[fence]"
WS == " "
\* the JSON string literal "Error", quotes included
ERRLIT == "\"Error\""
StringVal(s) == [t |-> "string", s |-> s]
\* tokens of a JSON string value: a word, or three backticks
StrTok == {"x", FENCE}

RECURSIVE SeqsUpTo(_, _)
SeqsUpTo(S, n) ==
    IF n = 0 THEN {<<>>}
    ELSE LET shorter == SeqsUpTo(S, n - 1)
         IN shorter \cup {Append(s, e) : s \in {q \in shorter : Len(q) = n - 1}, e \in S}

\* is a a contiguous part of b (String.prototype.includes)
Contains(b, a) ==
    \E i \in 0..(Len(b) - Len(a)) : SubSeq(b, i + 1, i + Len(a)) = a

\* the text of the JSON object {"summary":"<c>"}
ObjectText(c) == <<"{">> \o c \o <<"}">>

\* The response texts an upstream model may produce: an optional leading
\* blank, an optional opening fence (bare or followed by json), a body (a JSON object,
\* a JSON number, a JSON string literal, prose, or nothing) and an optional
\* closing fence.
Bodies == {ObjectText(c) : c \in SeqsUpTo(StrTok, MaxStr)} \cup {<<"x">>, <<"7">>, <<ERRLIT>>, <<>>}
Texts ==
    {lead \o open \o body \o close :
        lead \in {<<>>, <<WS>>},
        open \in {<<>>, <<FENCE>>, <<FENCE, "json">>},
        body \in Bodies,
        close \in {<<>>, <<FENCE>>}}

\* text.replace(/FENCE json/g, "")
RECURSIVE RemoveFenceJson(_)
RemoveFenceJson(s) ==
    IF s = <<>> THEN <<>>
    ELSE IF Len(s) >= 2 /\ s[1] = FENCE /\ s[2] = "json"
         THEN RemoveFenceJson(SubSeq(s, 3, Len(s)))
         ELSE <<s[1]>> \o RemoveFenceJson(Tail(s))

\* text.replace(/FENCE/g, "")
RemoveFence(s) == SelectSeq(s, LAMBDA t : t # FENCE)

\* String.prototype.trim
RECURSIVE TrimLeft(_)
TrimLeft(s) == IF s # <<>> /\ s[1] = WS THEN TrimLeft(Tail(s)) ELSE s
RECURSIVE TrimRight(_)
TrimRight(s) ==
    IF s # <<>> /\ s[Len(s)] = WS THEN TrimRight(SubSeq(s, 1, Len(s) - 1)) ELSE s
Trim(s) == TrimLeft(TrimRight(s))

\* text.replace(/FENCE json/g, "").replace(/FENCE/g, "").trim()
CleanedNoFenceJson(text) == Trim(RemoveFenceJson(text))
Cleaned(text) == Trim(RemoveFence(RemoveFenceJson(text)))

\* JSON.stringify(r.data) of a response body whose text the code did not find:
\* the body's text sits inside it as a string, its quotes escaped.
Escape(s) == [i \in 1..Len(s) |-> IF s[i] = "{" THEN "\\{" ELSE IF s[i] = "}" THEN "\\}" ELSE s[i]]
Unescape(s) == [i \in 1..Len(s) |-> IF s[i] = "\\{" THEN "{" ELSE IF s[i] = "\\}" THEN "}" ELSE s[i]]
Stringify(data) == <<"{env">> \o Escape(data.text) \o <<"env}">>

\* JSON.parse: blanks around the value are allowed; the value is an object
\* {"summary":"..."} (any token may stand inside the string), a number, or
\* a string literal, or a stringified response body.
JSONParse(s) ==
    LET v == Trim(s)
        inner == SubSeq(v, 2, Len(v) - 1)
    IN  IF v = <<"7">> THEN [ok |-> TRUE, val |-> [t |-> "number"]]
        ELSE IF v = <<ERRLIT>> THEN [ok |-> TRUE, val |-> StringVal(<<"Error">>)]
        ELSE IF /\ Len(v) >= 2
                /\ v[1] = "{"
                /\ v[Len(v)] = "}"
                /\ \A i \in 1..Len(inner) : inner[i] \notin {"{", "}", "{env", "env}"}
             THEN [ok |-> TRUE, val |-> [t |-> "object", summary |-> inner]]
             ELSE IF /\ Len(v) >= 2
                     /\ v[1] = "{env"
                     /\ v[Len(v)] = "env}"
                     /\ \A i \in 1..Len(inner) : inner[i] \notin {"{", "}", "{env", "env}"}
                  THEN [ok |-> TRUE, val |-> [t |-> "object", candidates |-> Unescape(inner)]]
                  ELSE [ok |-> FALSE]

\* The message of the SyntaxError JSON.parse throws: older engines name only
\* the offending token, newer ones quote the source text as well.
SyntaxErrorMessage(s, quotes) ==
    IF quotes THEN <<"Unexpected token">> \o s \o <<"is not valid JSON">>
    ELSE <<"Unexpected token">>

(***************************************************************************)
(* Outcomes of a call: it returns a value or throws                        *)
(***************************************************************************)
Return(v) == [k |-> "return", val |-> v]
Throw(m) == [k |-> "throw", msg |-> m]
Array(items) == [t |-> "array", items |-> items]
Fallthrough == [k |-> "fallthrough"]
NotCalled == [k |-> "notCalled"]

(***************************************************************************)
(* What the external services may answer                                   *)
(***************************************************************************)
\* model.generateContent(...) of the SDK: it throws, or yields a result with
\* a response text, or a result that has no text
SdkOutcomes ==
    {Throw(<<"sdk failed">>), [k |-> "noText"]} \cup {[k |-> "text", text |-> t] : t \in Texts}

\* axios.post(url, body) to the REST endpoint: it throws (network error, or an
\* error status with an error message), or yields r.data. The shapes of
\* r.data: content0 is candidates[0].content[0].text, parts is
\* candidates[0].content.parts[0].text.
RestShapes == {"content0", "parts"}
RestOutcomes ==
    {Throw(<<"Network Error">>), Throw(<<"API key not valid">>)}
    \cup {[k |-> "data", data |-> [shape |-> sh, text |-> t]] : sh \in RestShapes, t \in Texts}

(***************************************************************************)
(* AI adapter: processDocument, chatAI, analyzeCase                        *)
(***************************************************************************)
WithSummary(obj, summary) == [obj EXCEPT !.summary = summary]

\* (result?.response?.text && result.response.text()) || ... null: a missing
\* text and the empty string are both falsy
SdkText(sdk) == IF sdk.k = "text" THEN sdk.text ELSE <<>>

\* cand?.content?.[0]?.text || cand?.content?.text || ... || JSON.stringify(r.data)
RestText(data) ==
    IF data.shape = "content0" /\ data.text # <<>> THEN data.text ELSE Stringify(data)

KeyMissingDoc ==
    [t |-> "object", summary |-> <<"AI Key Missing">>, facts |-> <<>>,
     judgments |-> Array(<<>>), solutions |-> Array(<<>>)]
defaultErrorResponseDoc ==
    [t |-> "object", summary |-> <<"Error analyzing document">>, facts |-> <<>>,
     judgments |-> Array(<<>>), solutions |-> Array(<<>>)]

\* try { return JSON.parse(cleaned); } catch (e) { return {...defaultErrorResponse, summary: prefix + cleaned} }
ParseOrRawDoc(cleaned, prefix) ==
    LET p == JSONParse(cleaned)
    IN  IF p.ok THEN Return(p.val)
        ELSE Return(WithSummary(defaultErrorResponseDoc, <<prefix>> \o cleaned))

\* the SDK path of processDocument, with its catch
SdkPathDoc(sdk) ==
    IF sdk.k = "throw" THEN Fallthrough
    ELSE LET text == SdkText(sdk)
         IN  IF text = <<>> THEN Fallthrough
             ELSE ParseOrRawDoc(Cleaned(text), "AI returned non-JSON output (SDK). Raw: ")

\* the body of the REST try block of processDocument
RestBodyDoc(rest) ==
    IF rest.k = "throw" THEN rest
    ELSE ParseOrRawDoc(Cleaned(RestText(rest.data)), "AI returned non-JSON (REST). Raw: ")

RestPathDocNoCatch(rest) == RestBodyDoc(rest)
\* for comparison: a catch that returns the error message as a plain string
RestPathDocErrorString(rest) ==
    LET b == RestBodyDoc(rest)
    IN  IF b.k = "throw" THEN Return(StringVal(<<"Error">> \o b.msg)) ELSE b
\* the REST try block with its catch (restErr)
RestPathDoc(rest) ==
    LET b == RestBodyDoc(rest)
    IN  IF b.k = "throw"
        THEN Return(WithSummary(defaultErrorResponseDoc, <<"Error analyzing document: ">> \o b.msg))
        ELSE b

processDocument(sdk, rest) ==
    IF ~CONFIG.GEMINI_API_KEY THEN Return(KeyMissingDoc)
    ELSE LET a == SdkPathDoc(sdk)
         IN  IF a.k = "return" THEN a ELSE RestPathDoc(rest)

\* chatAI
SdkPathChat(sdk) ==
    IF sdk.k = "throw" THEN Fallthrough
    ELSE Return(StringVal(IF SdkText(sdk) # <<>> THEN SdkText(sdk) ELSE <<"[object Object]">>))

RestBodyChat(rest) ==
    IF rest.k = "throw" THEN rest ELSE Return(StringVal(RestText(rest.data)))

RestPathChat(rest) ==
    LET b == RestBodyChat(rest)
    IN  IF b.k = "throw" THEN Return(StringVal(<<"AI Error: ">> \o b.msg)) ELSE b

chatAI(sdk, rest) ==
    IF ~CONFIG.GEMINI_API_KEY THEN Return(StringVal(<<"AI Key Missing">>))
    ELSE LET a == SdkPathChat(sdk)
         IN  IF a.k = "return" THEN a ELSE RestPathChat(rest)

\* analyzeCase
KeyMissingCase ==
    [t |-> "object", summary |-> <<"AI Error - key missing">>, facts |-> <<>>,
     strengths |-> Array(<<>>), weaknesses |-> Array(<<>>)]
defaultErrorResponseCase ==
    [t |-> "object", summary |-> <<"Analysis Failed">>, facts |-> <<"text">>,
     strengths |-> Array(<<>>), weaknesses |-> Array(<<>>)]

\* return JSON.parse(cleaned), with no catch of its own
ParseOrThrow(cleaned, quotes) ==
    LET p == JSONParse(cleaned)
    IN  IF p.ok THEN Return(p.val) ELSE Throw(SyntaxErrorMessage(cleaned, quotes))

\* the body of the SDK try block of analyzeCase; String(res) of a result
\* without text is "[object Object]"
SdkBodyCase(sdk, quotes) ==
    IF sdk.k = "throw" THEN sdk
    ELSE LET txt == IF SdkText(sdk) # <<>> THEN SdkText(sdk) ELSE <<"[object Object]">>
         IN  ParseOrThrow(Cleaned(txt), quotes)

SdkPathCase(sdk) ==
    LET b == SdkBodyCase(sdk, FALSE)
    IN  IF b.k = "throw" THEN Fallthrough ELSE b

RestBodyCase(rest, quotes) ==
    IF rest.k = "throw" THEN rest
    ELSE ParseOrThrow(Cleaned(RestText(rest.data)), quotes)

RestPathCase(rest, quotes) ==
    LET b == RestBodyCase(rest, quotes)
    IN  IF b.k = "throw"
        THEN Return(WithSummary(defaultErrorResponseCase, <<"Analysis Failed: ">> \o b.msg))
        ELSE b

analyzeCase(sdk, rest, quotes) ==
    IF ~CONFIG.GEMINI_API_KEY THEN Return(KeyMissingCase)
    ELSE LET a == SdkPathCase(sdk)
         IN  IF a.k = "return" THEN a ELSE RestPathCase(rest, quotes)

(***************************************************************************)
(* Search adapter                                                          *)
(***************************************************************************)
\* the documents an upstream search may list
Docs ==
    {[title |-> "State v. A", docsource |-> "High Court", tid |-> "101", url |-> "u101"],
     [title |-> "B v. Union", docsource |-> "Supreme Court", tid |-> "202", url |-> "u202"]}

\* axios.post / axios.get to the judgment-search API: a network error, an
\* error status, or response data that lists documents under one key
ThrowStatus(m, st) == [k |-> "throw", msg |-> m, status |-> st]
KanoonOutcomes ==
    {ThrowStatus(<<"Network Error">>, 0), ThrowStatus(<<"Request failed">>, 401),
     ThrowStatus(<<"Request failed">>, 500)}
    \cup {[k |-> "data", key |-> ky, items |-> ds] :
            ky \in {"docs", "results"}, ds \in SeqsUpTo(Docs, MaxDocs)}

FallbackList ==
    Array(<<[title |-> "Kesavananda Bharati v. State of Kerala", court |-> "Supreme Court", link |-> <<"#">>],
            [title |-> "Vishaka v. State of Rajasthan", court |-> "Supreme Court", link |-> <<"#">>]>>)

\* res.data.docs.map(d => ({title, court: d.docsource, link})): a TypeError
\* when res.data has no docs
SearchBody(up) ==
    IF up.k = "throw" THEN up
    ELSE IF up.key # "docs" THEN Throw(<<"TypeError">>)
    ELSE Return(Array([i \in 1..Len(up.items) |->
            [title |-> up.items[i].title,
             court |-> up.items[i].docsource,
             link |-> <<"https://indiankanoon.org/doc/", up.items[i].tid, "/">>]]))

SearchNoCatch(up) == SearchBody(up)
\* the try block with its catch, then the fallback return
SearchCatch(up) ==
    LET b == SearchBody(up)
    IN  IF b.k = "throw" THEN Return(FallbackList) ELSE b

searchJudgments(up) ==
    IF CONFIG.INDIAN_KANOON_TOKEN THEN SearchCatch(up) ELSE Return(FallbackList)

(***************************************************************************)
(* HTTP responses                                                          *)
(***************************************************************************)
Json(status, body) == [status |-> status, body |-> body]
\* the handler's promise rejected before anything was sent
NoResponse == [status |-> 0]

\* res.json(wrap(await adapter(...))): a throwing adapter rejects the handler
RouteOf(outcome, body) == IF outcome.k = "throw" THEN NoResponse ELSE Json(200, body)

(***************************************************************************)
(* verifyToken                                                             *)
(***************************************************************************)
Uids == {"u1", "u2"}
Tokens == {[k |-> "none"], [k |-> "invalid"]} \cup {[k |-> "valid", uid |-> u] : u \in Uids}

\* for comparison: a middleware that lets an unverified token through
verifyTokenUnchecked(token) ==
    IF ~IS_FIREBASE_LIVE THEN [next |-> TRUE, uid |-> "mock-user-id"]
    ELSE IF token.k = "none"
         THEN [next |-> FALSE, resp |-> Json(401, [success |-> FALSE, message |-> "Authorization required."])]
         ELSE [next |-> TRUE, uid |-> IF token.k = "valid" THEN token.uid ELSE "u1"]

verifyToken(token) ==
    IF ~IS_FIREBASE_LIVE THEN [next |-> TRUE, uid |-> "mock-user-id"]
    ELSE IF token.k = "none"
         THEN [next |-> FALSE, resp |-> Json(401, [success |-> FALSE, message |-> "Authorization required."])]
         ELSE IF token.k = "invalid"
              THEN [next |-> FALSE, resp |-> Json(401, [success |-> FALSE, message |-> "Invalid or expired token."])]
              ELSE [next |-> TRUE, uid |-> token.uid]

(***************************************************************************)
(* Routes over the AI and search adapters                                  *)
(***************************************************************************)
\* The adapters keep no state between requests: a behaviour follows one
\* request from its arrival to its response.
AiIdle(set) == routeSet = set /\ aiCall.op = "none"
AiFrame == UNCHANGED <<routeSet, IS_FIREBASE_LIVE, CONFIG, authVars, caseVars>>

\* for comparison: an adapter that tries the SDK a second time after it threw
AiCallsRetry(sdk, rest) ==
    (IF sdk = NotCalled THEN <<>>
     ELSE IF sdk.k = "throw" THEN <<"gemini-sdk", "gemini-sdk">> ELSE <<"gemini-sdk">>)
    \o (IF rest = NotCalled THEN <<>> ELSE <<"gemini-rest">>)
\* which external calls an adapter with an SDK path and a REST path made
AiCalls(sdk, rest) ==
    (IF sdk = NotCalled THEN <<>> ELSE <<"gemini-sdk">>)
    \o (IF rest = NotCalled THEN <<>> ELSE <<"gemini-rest">>)

SdkChoices == IF CONFIG.GEMINI_API_KEY THEN SdkOutcomes ELSE {NotCalled}
RestChoices(path) ==
    IF CONFIG.GEMINI_API_KEY /\ path.k # "return" THEN RestOutcomes ELSE {NotCalled}

\* app.post('/api/upload')
ApiUpload ==
    /\ AiIdle(1)
    /\ \/ /\ aiCall' = [op |-> "upload", file |-> FALSE]
          /\ aiRet' = NotCalled
          /\ aiResp' = Json(200, [success |-> FALSE, message |-> <<"No file">>])
          /\ extCalls' = <<>>
          /\ AiFrame
       \/ \E sdk \in SdkChoices : \E rest \in RestChoices(SdkPathDoc(sdk)) :
           LET result == processDocument(sdk, rest)
           IN  /\ aiCall' = [op |-> "upload", file |-> TRUE, sdk |-> sdk, rest |-> rest]
               /\ aiRet' = result
               /\ aiResp' =
                   IF result.k = "throw" THEN NoResponse
                   ELSE IF result.val.t = "string" /\ result.val.s # <<>> /\ result.val.s[1] = "Error"
                        THEN Json(200, [success |-> FALSE, message |-> result.val])
                        ELSE Json(200, [success |-> TRUE, data |-> result.val])
               /\ extCalls' = AiCalls(sdk, rest)
               /\ AiFrame

\* app.post('/api/chat')
ApiChat ==
    /\ AiIdle(1)
    /\ \E sdk \in SdkChoices : \E rest \in RestChoices(SdkPathChat(sdk)) :
        LET result == chatAI(sdk, rest)
        IN  /\ aiCall' = [op |-> "chat", sdk |-> sdk, rest |-> rest]
            /\ aiRet' = result
            /\ aiResp' = RouteOf(result, [reply |-> result.val])
            /\ extCalls' = AiCalls(sdk, rest)
            /\ AiFrame

\* the engine's choice of SyntaxError message matters only when the REST text fails to parse
QuoteChoices(rest) ==
    IF rest # NotCalled /\ rest.k # "throw" /\ RestBodyCase(rest, FALSE).k = "throw"
    THEN BOOLEAN ELSE {FALSE}

\* app.post('/api/analyze')
ApiAnalyze ==
    /\ AiIdle(1)
    /\ \E sdk \in SdkChoices : \E rest \in RestChoices(SdkPathCase(sdk)) :
        \E quotes \in QuoteChoices(rest) :
        LET result == analyzeCase(sdk, rest, quotes)
        IN  /\ aiCall' = [op |-> "analyze", sdk |-> sdk, rest |-> rest]
            /\ aiRet' = result
            /\ aiResp' = RouteOf(result, [success |-> TRUE, data |-> result.val])
            /\ extCalls' = AiCalls(sdk, rest)
            /\ AiFrame

KanoonChoices == IF CONFIG.INDIAN_KANOON_TOKEN THEN KanoonOutcomes ELSE {NotCalled}

\* app.post('/api/search')
ApiSearch ==
    /\ AiIdle(1)
    /\ \E up \in KanoonChoices :
        LET result == searchJudgments(up)
        IN  /\ aiCall' = [op |-> "search", up |-> up]
            /\ aiRet' = result
            /\ aiResp' = RouteOf(result, [results |-> result.val])
            /\ extCalls' = IF up = NotCalled THEN <<>> ELSE <<"kanoon">>
            /\ AiFrame

MockJudgements ==
    Array(<<[title |-> "Mock Judgement 1", url |-> "#"], [title |-> "Mock Judgement 2", url |-> "#"]>>)

\* the handler of app.post('/api/ai/legal-research') in the second route set
LegalResearchHandler(up) ==
    IF ~IS_FIREBASE_LIVE THEN Json(200, [results |-> MockJudgements])
    ELSE IF ~CONFIG.INDIAN_KANOON_TOKEN
         THEN Json(500, [success |-> FALSE, message |-> "INDIAN_KANOON_TOKEN not configured."])
         ELSE IF up.k = "throw"
              THEN Json(500, [success |-> FALSE,
                              message |-> IF up.status = 401
                                          THEN "Unauthorized: Invalid Indian Kanoon Token."
                                          ELSE "Legal research failed. Check if Indian Kanoon Token is valid."])
              ELSE IF up.key # "results"
                   THEN Json(500, [success |-> FALSE,
                                   message |-> "Legal research failed. Check if Indian Kanoon Token is valid."])
                   ELSE Json(200, [success |-> TRUE,
                                   results |-> Array([i \in 1..Len(up.items) |->
                                        [title |-> up.items[i].title, url |-> up.items[i].url]])])

\* app.post('/api/ai/legal-research', verifyToken, ...)
LegalResearch2 ==
    /\ AiIdle(2)
    /\ \E token \in Tokens :
        LET v == verifyToken(token)
        IN  \E up \in (IF v.next /\ IS_FIREBASE_LIVE /\ CONFIG.INDIAN_KANOON_TOKEN
                       THEN KanoonOutcomes ELSE {NotCalled}) :
            /\ aiCall' = [op |-> "legal-research", token |-> token, up |-> up]
            /\ aiRet' = NotCalled
            /\ aiResp' = IF v.next THEN LegalResearchHandler(up) ELSE v.resp
            /\ extCalls' = IF up = NotCalled THEN <<>> ELSE <<"kanoon">>
            /\ AiFrame

Configs ==
    [GEMINI_API_KEY : BOOLEAN, INDIAN_KANOON_TOKEN : BOOLEAN, EMAIL : BOOLEAN,
     NODEMAILER_PASS : BOOLEAN]

\* the state after start-up, before any registration
InitStores ==
    /\ accounts = <<>>
    /\ users = <<>>
    /\ MOCK_DB = <<>>
    /\ mailCalls = <<>>
    /\ authCall = [op |-> "none"]
    /\ authResp = NoResponse
    /\ cases = <<>>
    /\ reqs = <<>>
    /\ landed = <<>>
    /\ now = 1

InitAI ==
    /\ routeSet \in {1, 2}
    /\ IS_FIREBASE_LIVE \in BOOLEAN
    /\ CONFIG \in {c \in Configs : c.EMAIL /\ c.NODEMAILER_PASS}
    /\ InitStores
    /\ aiCall = [op |-> "none"]
    /\ aiRet = NotCalled
    /\ aiResp = NoResponse
    /\ extCalls = <<>>

NextAI == ApiUpload \/ ApiChat \/ ApiAnalyze \/ ApiSearch \/ LegalResearch2

SpecAI == InitAI /\ [][NextAI]_vars

(***************************************************************************)
(* Notifier, first route set (app.js:977-993) and second (1171-1190)       *)
(***************************************************************************)
\* for comparison: a sendMail whose relay error reaches the caller
MailCallNoCatch(to, subject, value, credentials, relayOk) ==
    [to |-> to, subject |-> subject, value |-> value,
     dispatched |-> credentials, delivered |-> credentials /\ relayOk,
     threw |-> credentials /\ ~relayOk]
\* One call of sendMail: without credentials nothing is dispatched; a relay
\* failure is caught (first route set) or handed to the callback (second) and
\* logged. threw: whether the call raised an error in its caller.
MailCall(to, subject, value, credentials, relayOk) ==
    [to |-> to, subject |-> subject, value |-> value,
     dispatched |-> credentials, delivered |-> credentials /\ relayOk,
     threw |-> FALSE]

sendMail(to, subject, value, relayOk) == MailCall(to, subject, value, CONFIG.EMAIL, relayOk)
sendMail2(to, subject, value, relayOk) == MailCall(to, subject, value, CONFIG.NODEMAILER_PASS, relayOk)

(***************************************************************************)
(* Auth adapter: registration and login                                    *)
(***************************************************************************)
Emails == {"a@x.in", "b@x.in"}
Passwords == {"pw1", "pw2"}
Roles == {"Litigant", "Lawyer"}
Names == {"Asha"}

\* the uid the identity provider gives the n-th account
UidOf(n) == IF n = 1 THEN "u1" ELSE "u2"

AccountsWith(email) == {i \in 1..Len(accounts) : accounts[i].email = email}
HasDoc(coll, id) == id \in DOMAIN coll

\* doc(id).set(data): the document is replaced
\* for comparison: a write that keeps a document that is already there
SetDocIfAbsent(coll, id, data) ==
    [x \in DOMAIN coll \cup {id} |-> IF x \in DOMAIN coll THEN coll[x] ELSE data]
SetDoc(coll, id, data) == [x \in DOMAIN coll \cup {id} |-> IF x = id THEN data ELSE coll[x]]

AuthFrame == UNCHANGED <<routeSet, IS_FIREBASE_LIVE, CONFIG, aiVars, caseVars>>

\* whether an external call succeeds is open only where the call is made
Outcome(called) == IF called THEN BOOLEAN ELSE {TRUE}

ZeroStats == [cases |-> 0, docs |-> 0]

\* the profile record registerUser writes (app.js:91-95)
ProfileRecord(name, email, role) ==
    [name |-> name, email |-> email, role |-> role, stats |-> ZeroStats]
\* the profile record the second /api/register writes (app.js:1249-1253)
ProfileRecord2(name, email, role) == [email |-> email]

\* registerUser behind app.post('/api/register') of the first route set.
\* providerOk, dbOk, relayOk: whether createUser, the profile write and the
\* mail relay succeed.
Register ==
    /\ routeSet = 1
    /\ \E name \in Names, email \in Emails, password \in Passwords, role \in Roles :
       \E providerOk \in Outcome(IS_FIREBASE_LIVE) :
       \E dbOk \in Outcome(IS_FIREBASE_LIVE /\ providerOk /\ AccountsWith(email) = {}) :
       \E relayOk \in Outcome(IS_FIREBASE_LIVE /\ providerOk /\ AccountsWith(email) = {} /\ dbOk /\ CONFIG.EMAIL) :
        LET call == [op |-> "register", set |-> 1, name |-> name, email |-> email,
                     password |-> password, role |-> role, mailsBefore |-> Len(mailCalls)]
            uid == UidOf(Len(accounts) + 1)
        IN  /\ authCall' = call
            /\ AuthFrame
            /\ IF IS_FIREBASE_LIVE
               THEN /\ UNCHANGED MOCK_DB
                    /\ IF ~providerOk \/ AccountsWith(email) # {}
                       THEN \* createUser threw
                            /\ authResp' = Json(200, [success |-> FALSE, message |-> "createUser failed"])
                            /\ UNCHANGED <<accounts, users, mailCalls>>
                       ELSE /\ accounts' = Append(accounts,
                                   [uid |-> uid, email |-> email, password |-> password,
                                    displayName |-> name])
                            /\ IF ~dbOk
                               THEN \* the profile write threw
                                    /\ authResp' = Json(200, [success |-> FALSE, message |-> "set failed"])
                                    /\ UNCHANGED <<users, mailCalls>>
                               ELSE LET mail == sendMail(email, "Welcome to CourtEase", role, relayOk)
                                    IN  /\ users' = SetDoc(users, uid, ProfileRecord(name, email, role))
                                        /\ mailCalls' = Append(mailCalls, mail)
                                        /\ authResp' =
                                             IF mail.threw \* await sendMail(...) inside the try
                                             THEN Json(200, [success |-> FALSE, message |-> "sendMail failed"])
                                             ELSE Json(200, [success |-> TRUE])
               ELSE /\ Len(MOCK_DB) < MaxMock
                    /\ MOCK_DB' = Append(MOCK_DB, [name |-> name, email |-> email,
                                                   password |-> password, role |-> role])
                    /\ authResp' = Json(200, [success |-> TRUE, message |-> "Mock Registered"])
                    /\ UNCHANGED <<accounts, users, mailCalls>>

\* app.post("/api/register") of the second route set. present: the body
\* carries an email and a password.
Register2 ==
    /\ routeSet = 2
    /\ \E name \in Names, email \in Emails, password \in Passwords, role \in Roles :
       \E present \in BOOLEAN :
       \E providerOk \in Outcome(present /\ IS_FIREBASE_LIVE) :
       \E dbOk \in Outcome(present /\ IS_FIREBASE_LIVE /\ providerOk /\ AccountsWith(email) = {}) :
       \E relayOk \in Outcome(present /\ IS_FIREBASE_LIVE /\ providerOk /\ AccountsWith(email) = {}
                            /\ dbOk /\ CONFIG.NODEMAILER_PASS) :
        LET call == [op |-> "register", set |-> 2, name |-> name, email |-> email,
                     password |-> password, role |-> role, mailsBefore |-> Len(mailCalls)]
            uid == UidOf(Len(accounts) + 1)
        IN  /\ authCall' = call
            /\ AuthFrame
            /\ UNCHANGED MOCK_DB
            /\ IF ~present
               THEN /\ authResp' = Json(400, [success |-> FALSE, message |-> "Error: Registration data missing."])
                    /\ UNCHANGED <<accounts, users, mailCalls>>
               ELSE IF ~IS_FIREBASE_LIVE
               THEN /\ authResp' = Json(200, [success |-> TRUE,
                                              message |-> "User mock-registered (Firebase not live)"])
                    /\ UNCHANGED <<accounts, users, mailCalls>>
               ELSE IF ~providerOk \/ AccountsWith(email) # {}
               THEN /\ authResp' = Json(400, [success |-> FALSE, message |-> "Registration failed."])
                    /\ UNCHANGED <<accounts, users, mailCalls>>
               ELSE /\ accounts' = Append(accounts,
                           [uid |-> uid, email |-> email, password |-> password,
                            displayName |-> "none"])
                    /\ IF ~dbOk
                       THEN /\ authResp' = Json(400, [success |-> FALSE, message |-> "Registration failed."])
                            /\ UNCHANGED <<users, mailCalls>>
                       ELSE LET mail == sendMail2(email, "Welcome to CourtEase!", "none", relayOk)
                            IN  /\ users' = SetDoc(users, uid, ProfileRecord2(name, email, role))
                                /\ mailCalls' = Append(mailCalls, mail)
                                /\ authResp' =
                                     IF mail.threw \* sendMail(...) inside the try
                                     THEN Json(400, [success |-> FALSE, message |-> "Registration failed."])
                                     ELSE Json(200, [success |-> TRUE, userId |-> uid,
                                            message |-> "User registered successfully. Welcome email sent."])

\* the identity provider's password sign-in: the uid of the account with
\* this email and password, if there is one
SignIn(email, password) ==
    {accounts[i].uid : i \in {j \in AccountsWith(email) : accounts[j].password = password}}

DefaultUserData == [name |-> "User", role |-> "Litigant", stats |-> ZeroStats]

\* MOCK_DB.users.find(u => u.email === email && u.password === password)
\* for comparison: a lookup that returns the latest matching entry
MockFindLast(email, password) ==
    LET hits == {i \in 1..Len(MOCK_DB) :
                    MOCK_DB[i].email = email /\ MOCK_DB[i].password = password}
    IN  IF hits = {} THEN 0 ELSE CHOOSE i \in hits : \A j \in hits : j <= i
MockFind(email, password) ==
    LET hits == {i \in 1..Len(MOCK_DB) :
                    MOCK_DB[i].email = email /\ MOCK_DB[i].password = password}
    IN  IF hits = {} THEN 0 ELSE CHOOSE i \in hits : \A j \in hits : i <= j

\* loginUser behind app.post('/api/login') of the first route set
Login ==
    /\ routeSet = 1
    /\ \E email \in Emails, password \in Passwords :
       \E providerOk \in Outcome(IS_FIREBASE_LIVE) :
       \E dbOk \in Outcome(IS_FIREBASE_LIVE /\ providerOk /\ SignIn(email, password) # {}) :
        /\ authCall' = [op |-> "login", set |-> 1, email |-> email, password |-> password]
        /\ AuthFrame
        /\ UNCHANGED <<accounts, users, MOCK_DB, mailCalls>>
        /\ authResp' =
            IF IS_FIREBASE_LIVE
            THEN IF ~providerOk \/ SignIn(email, password) = {}
                 THEN Json(200, [success |-> FALSE, message |-> "sign-in failed"])
                 ELSE LET uid == CHOOSE u \in SignIn(email, password) : TRUE
                      IN  IF ~dbOk THEN Json(200, [success |-> FALSE, message |-> "Login Failed"])
                          ELSE Json(200, [success |-> TRUE,
                                          user |-> [id |-> uid, email |-> email,
                                                    data |-> IF HasDoc(users, uid) THEN users[uid]
                                                             ELSE DefaultUserData]])
            ELSE LET i == MockFind(email, password)
                 IN  IF i # 0 THEN Json(200, [success |-> TRUE, user |-> MOCK_DB[i]])
                     ELSE Json(200, [success |-> FALSE, message |-> "Invalid Credentials"])

\* app.post("/api/login") of the second route set: the password is not read
Login2 ==
    /\ routeSet = 2
    /\ \E email \in Emails, password \in Passwords :
       \E providerOk \in Outcome(IS_FIREBASE_LIVE) :
        /\ authCall' = [op |-> "login", set |-> 2, email |-> email, password |-> password]
        /\ AuthFrame
        /\ UNCHANGED <<accounts, users, MOCK_DB, mailCalls>>
        /\ authResp' =
            IF ~IS_FIREBASE_LIVE
            THEN Json(200, [success |-> TRUE, token |-> "mock-jwt-token", message |-> "Mock Login Success"])
            ELSE IF ~providerOk \/ AccountsWith(email) = {}
                 THEN Json(401, [success |-> FALSE, message |-> "Invalid credentials or user not found."])
                 ELSE LET i == CHOOSE j \in AccountsWith(email) : TRUE
                      IN  Json(200, [success |-> TRUE, token |-> <<"custom-token", accounts[i].uid>>,
                                     userId |-> accounts[i].uid,
                                     message |-> "Login successful (Token generated)"])

\* doc(uid).update(data): the fields of data are set, the others stay
MergeDocReplace(rec, data) == data
MergeDoc(rec, data) ==
    [f \in DOMAIN rec \cup DOMAIN data |-> IF f \in DOMAIN data THEN data[f] ELSE rec[f]]

\* what a profile form submits
ProfileData ==
    {[name |-> "Bina"], [role |-> "Lawyer"], [name |-> "Bina", role |-> "Lawyer"]}

AccountsOf(uid) == {i \in 1..Len(accounts) : accounts[i].uid = uid}

\* updateUserProfile behind app.post('/api/update-profile') of the first route
\* set. dbOk, providerOk: whether the profile write and updateUser succeed;
\* the write also fails when there is no such document, updateUser when
\* there is no such account.
UpdateProfile ==
    /\ routeSet = 1
    /\ \E uid \in Uids, data \in ProfileData :
       \E dbOk \in Outcome(IS_FIREBASE_LIVE) :
       \E providerOk \in Outcome(IS_FIREBASE_LIVE /\ dbOk /\ HasDoc(users, uid)
                                 /\ "name" \in DOMAIN data) :
        /\ authCall' = [op |-> "update-profile", set |-> 1, uid |-> uid, data |-> data,
                        before |-> users]
        /\ AuthFrame
        /\ UNCHANGED <<MOCK_DB, mailCalls>>
        /\ IF ~IS_FIREBASE_LIVE
           THEN /\ authResp' = Json(200, [success |-> TRUE])
                /\ UNCHANGED <<accounts, users>>
           ELSE IF ~dbOk \/ ~HasDoc(users, uid)
           THEN /\ authResp' = Json(200, [success |-> FALSE, message |-> "update failed"])
                /\ UNCHANGED <<accounts, users>>
           ELSE /\ users' = [users EXCEPT ![uid] = MergeDoc(users[uid], data)]
                /\ IF "name" \notin DOMAIN data
                   THEN /\ authResp' = Json(200, [success |-> TRUE])
                        /\ UNCHANGED accounts
                   ELSE IF ~providerOk \/ AccountsOf(uid) = {}
                   THEN /\ authResp' = Json(200, [success |-> FALSE, message |-> "updateUser failed"])
                        /\ UNCHANGED accounts
                   ELSE /\ accounts' = [i \in 1..Len(accounts) |->
                                          IF accounts[i].uid = uid
                                          THEN [accounts[i] EXCEPT !.displayName = data.name]
                                          ELSE accounts[i]]
                        /\ authResp' = Json(200, [success |-> TRUE])

InitAuth ==
    /\ routeSet \in {1, 2}
    /\ IS_FIREBASE_LIVE \in BOOLEAN
    /\ CONFIG \in {c \in Configs : c.GEMINI_API_KEY /\ c.INDIAN_KANOON_TOKEN}
    /\ InitStores
    /\ aiCall = [op |-> "none"]
    /\ aiRet = NotCalled
    /\ aiResp = NoResponse
    /\ extCalls = <<>>

NextAuth == Register \/ Register2 \/ Login \/ Login2

SpecAuth == InitAuth /\ [][NextAuth]_vars

\* Profile updates start from the stores as registrations of the first route
\* set leave them: up to two accounts, each with its profile record unless
\* the profile write failed; in mock mode, the in-memory user list.
RegisteredAccounts ==
    <<[uid |-> "u1", email |-> "a@x.in", password |-> "pw1", displayName |-> "Asha"],
      [uid |-> "u2", email |-> "b@x.in", password |-> "pw2", displayName |-> "Asha"]>>

InitProfile ==
    /\ routeSet = 1
    /\ IS_FIREBASE_LIVE \in BOOLEAN
    /\ CONFIG \in {c \in Configs : c.GEMINI_API_KEY /\ c.INDIAN_KANOON_TOKEN /\ c.EMAIL /\ c.NODEMAILER_PASS}
    /\ aiCall = [op |-> "none"]
    /\ aiRet = NotCalled
    /\ aiResp = NoResponse
    /\ extCalls = <<>>
    /\ mailCalls = <<>>
    /\ authCall = [op |-> "none"]
    /\ authResp = NoResponse
    /\ cases = <<>>
    /\ reqs = <<>>
    /\ landed = <<>>
    /\ now = 1
    /\ \E n \in 0..2 :
        /\ accounts = IF IS_FIREBASE_LIVE THEN SubSeq(RegisteredAccounts, 1, n) ELSE <<>>
        /\ MOCK_DB = IF IS_FIREBASE_LIVE THEN <<>>
                     ELSE [i \in 1..n |-> [name |-> "Asha", email |-> RegisteredAccounts[i].email,
                                           password |-> RegisteredAccounts[i].password,
                                           role |-> "Litigant"]]
        /\ \E written \in SUBSET {RegisteredAccounts[i].uid : i \in 1..n} :
           \E role \in Roles :
            users = IF IS_FIREBASE_LIVE
                    THEN [u \in written |->
                            ProfileRecord("Asha", IF u = "u1" THEN "a@x.in" ELSE "b@x.in", role)]
                    ELSE <<>>

SpecProfile == InitProfile /\ [][UpdateProfile]_vars

(***************************************************************************)
(* Case store: the case routes of both route sets                          *)
(*                                                                         *)
(* A handler runs from one await to the next without interruption; other   *)
(* requests run in between.  A request arrives and issues its first store  *)
(* operation in one step; an update handler resumes once more to read the  *)
(* case and its owner, notify and respond.                                 *)
(***************************************************************************)
\* "CASE-" + Date.now(): a case id is named by the clock value in it
CaseIds == 0..MaxClock
Statuses == {"Filed", "Closed"}
HearingDates == {"2025-01-10"}
\* who sends a request; the update routes take no token and read no role
Actors == {"Lawyer", "Litigant"}
NoUser == "undefined"
\* jsonResponse.potential_case_id: the id of a stored case, or a new one
PotentialCaseIds == {0, 1}
\* req.body.caseId of an update or a note: the case stored from the start, or
\* the first one saved after it (missing until then)
TargetIds == {0, 1}

CaseFrame == UNCHANGED <<routeSet, IS_FIREBASE_LIVE, CONFIG, aiVars, accounts, users, MOCK_DB,
                         authCall, authResp>>

\* the record saveCaseToDB writes (app.js:998-1009)
CaseRecord(caseId, userId, data) ==
    [caseId |-> caseId, userId |-> userId, summary |-> data, status |-> "Submitted",
     notes |-> <<>>, hearingDate |-> "null", createdAt |-> now]

\* the record the analyze-document route writes (app.js:1357-1364)
CaseRecord2(userId, summary) ==
    [userId |-> userId, summary |-> summary, parties |-> "parties", keywords |-> "keywords",
     status |-> "New Case - Review Required", createdAt |-> now]

\* a document with one field set, the field added if it was missing
WithField(rec, field, value) ==
    [f \in DOMAIN rec \cup {field} |-> IF f = field THEN value ELSE rec[f]]

\* ref.update({field: value}) on an existing document: only the named field
\* changes.  Two variants for comparison: a write that replaces the document,
\* and a write that yields to an earlier one.
UpdateDocReplace(coll, id, field, value) ==
    [coll EXCEPT ![id] = WithField(WithField(WithField(coll[id], "status", "Submitted"),
                                             "hearingDate", "null"), field, value)]
UpdateDocIfUnset(coll, id, field, value) ==
    IF field = "status" /\ coll[id].status # "Submitted" THEN coll
    ELSE [coll EXCEPT ![id] = WithField(coll[id], field, value)]
UpdateDocClearNotes(coll, id, field, value) ==
    [coll EXCEPT ![id] = WithField(WithField(coll[id], "notes", <<>>), field, value)]
UpdateDoc(coll, id, field, value) == [coll EXCEPT ![id] = WithField(coll[id], field, value)]

\* FieldValue.arrayUnion(element): appended unless already there
ArrayUnion(arr, element) ==
    IF \E k \in 1..Len(arr) : arr[k] = element THEN arr ELSE Append(arr, element)

\* db.collection("cases").get() and .where("userId", "==", userId).get(),
\* docs.map(d => d.data()); for comparison, a listing served from the records
\* as they were saved
AllDocs == [c \in DOMAIN cases |-> cases[c]]
WhereUserIdAsSaved(userId) ==
    [c \in {x \in DOMAIN cases : cases[x].userId = userId} |-> [cases[c] EXCEPT !.status = "Submitted"]]
WhereUserIdUnfiltered(userId) == [c \in DOMAIN cases |-> cases[c]]
WhereUserId(userId) == [c \in {x \in DOMAIN cases : cases[x].userId = userId} |-> cases[c]]

\* snapshot.docs.map(doc => ({ id: doc.id, ...doc.data() }))
WithId(docs) == [c \in DOMAIN docs |-> [f \in DOMAIN docs[c] \cup {"id"} |-> IF f \in DOMAIN docs[c] THEN docs[c][f] ELSE c]]

\* userDoc.data()?.email
EmailOf(userId) ==
    IF userId \in DOMAIN users /\ "email" \in DOMAIN users[userId]
    THEN users[userId].email ELSE NoUser

\* for comparison: a notification that does not name the new value
SendMailNoValue(to, subject, value, relayOk) ==
    IF routeSet = 1 THEN sendMail(to, subject, "none", relayOk)
    ELSE sendMail2(to, subject, "none", relayOk)
\* sendMail of the running route set
SendMail(to, subject, value, relayOk) ==
    IF routeSet = 1 THEN sendMail(to, subject, value, relayOk)
    ELSE sendMail2(to, subject, value, relayOk)
MailCredentials == IF routeSet = 1 THEN CONFIG.EMAIL ELSE CONFIG.NODEMAILER_PASS

InFlight == {i \in 1..Len(reqs) : reqs[i].pc = "notify"}
Done == {i \in 1..Len(reqs) : reqs[i].pc = "done"}
MockMode == Json(200, [success |-> TRUE, message |-> "Mock Mode"])
\* [{ id: "MOCK-001", summary: "Mock Case Summary" }], listed under an id no stored case has
MockCases == [c \in {-1} |-> [id |-> "MOCK-001", summary |-> "Mock Case Summary"]]

\* app.post("/api/save-case") with saveCaseToDB (first route set)
SaveCase ==
    /\ routeSet = 1
    /\ Len(reqs) < MaxReqs
    /\ \E userId \in Uids, email \in {"a@x.in"}, data \in {"s1"} :
       \E dbOk \in Outcome(IS_FIREBASE_LIVE) :
       \E relayOk \in Outcome(IS_FIREBASE_LIVE /\ dbOk /\ MailCredentials) :
        LET r == [route |-> "save-case", userId |-> userId, caseId |-> now, field |-> "all",
                  value |-> data, record |-> CaseRecord(now, userId, data)]
        IN  /\ CaseFrame
            /\ UNCHANGED now
            /\ IF ~IS_FIREBASE_LIVE
               THEN /\ reqs' = Append(reqs, r @@ [pc |-> "done", resp |-> MockMode])
                    /\ UNCHANGED <<cases, landed, mailCalls>>
               ELSE IF ~dbOk
               THEN /\ reqs' = Append(reqs, r @@ [pc |-> "rejected", resp |-> NoResponse])
                    /\ UNCHANGED <<cases, landed, mailCalls>>
               ELSE /\ cases' = SetDoc(cases, now, CaseRecord(now, userId, data))
                    /\ landed' = Append(landed, Len(reqs) + 1)
                    /\ mailCalls' = Append(mailCalls,
                           SendMail(email, "Case Uploaded Successfully", now, relayOk))
                    /\ reqs' = Append(reqs, r @@ [pc |-> "done", mail |-> Len(mailCalls) + 1,
                           resp |-> Json(200, [success |-> TRUE, caseId |-> now])])

\* app.post("/api/get-cases") (first route set)
GetCases ==
    /\ routeSet = 1
    /\ Len(reqs) < MaxReqs
    /\ \E userId \in Uids :
       \E dbOk \in Outcome(IS_FIREBASE_LIVE) :
        LET r == [route |-> "get-cases", userId |-> userId, at |-> Len(landed), doneBefore |-> Done]
        IN  /\ CaseFrame
            /\ UNCHANGED <<cases, landed, mailCalls, now>>
            /\ reqs' = Append(reqs,
                 IF ~IS_FIREBASE_LIVE
                 THEN r @@ [pc |-> "done", resp |-> Json(200, [success |-> TRUE, cases |-> <<>>])]
                 ELSE IF ~dbOk THEN r @@ [pc |-> "rejected", resp |-> NoResponse]
                 ELSE r @@ [pc |-> "done",
                            resp |-> Json(200, [success |-> TRUE, cases |-> WhereUserId(userId)])])

\* app.post("/api/all-cases") (first route set)
AllCases ==
    /\ routeSet = 1
    /\ Len(reqs) < MaxReqs
    /\ \E dbOk \in Outcome(IS_FIREBASE_LIVE) :
        LET r == [route |-> "all-cases", at |-> Len(landed), doneBefore |-> Done]
        IN  /\ CaseFrame
            /\ UNCHANGED <<cases, landed, mailCalls, now>>
            /\ reqs' = Append(reqs,
                 IF ~IS_FIREBASE_LIVE
                 THEN r @@ [pc |-> "done", resp |-> Json(200, [success |-> TRUE, cases |-> <<>>])]
                 ELSE IF ~dbOk THEN r @@ [pc |-> "rejected", resp |-> NoResponse]
                 ELSE r @@ [pc |-> "done",
                            resp |-> Json(200, [success |-> TRUE, cases |-> AllDocs])])

\* app.post("/api/cases/add-note") (first route set)
AddNote ==
    /\ routeSet = 1
    /\ Len(reqs) < MaxReqs
    /\ \E caseId \in TargetIds, note \in {"n1"} :
       \E dbOk \in Outcome(IS_FIREBASE_LIVE) :
        LET r == [route |-> "add-note", caseId |-> caseId, field |-> "notes", value |-> note,
                  time |-> now]
        IN  /\ CaseFrame
            /\ UNCHANGED <<mailCalls, now>>
            /\ IF ~IS_FIREBASE_LIVE
               THEN /\ reqs' = Append(reqs, r @@ [pc |-> "done", resp |-> MockMode])
                    /\ UNCHANGED <<cases, landed>>
               ELSE IF ~dbOk \/ caseId \notin DOMAIN cases
               THEN /\ reqs' = Append(reqs, r @@ [pc |-> "rejected", resp |-> NoResponse])
                    /\ UNCHANGED <<cases, landed>>
               ELSE /\ cases' = UpdateDoc(cases, caseId, "notes",
                                   ArrayUnion(IF "notes" \in DOMAIN cases[caseId]
                                              THEN cases[caseId].notes ELSE <<>>,
                                              [text |-> note, time |-> now]))
                    /\ landed' = Append(landed, Len(reqs) + 1)
                    /\ reqs' = Append(reqs, r @@ [pc |-> "done",
                                                  resp |-> Json(200, [success |-> TRUE])])

\* app.get("/api/cases", verifyToken, ...) (second route set)
ListCases2 ==
    /\ routeSet = 2
    /\ Len(reqs) < MaxReqs
    /\ \E token \in Tokens :
        LET v == verifyToken(token)
        IN  \E dbOk \in Outcome(v.next /\ IS_FIREBASE_LIVE) :
            LET r == [route |-> "cases", token |-> token, at |-> Len(landed), doneBefore |-> Done]
            IN  /\ CaseFrame
                /\ UNCHANGED <<cases, landed, mailCalls, now>>
                /\ reqs' = Append(reqs,
                     IF ~v.next THEN r @@ [userId |-> NoUser, pc |-> "done", resp |-> v.resp]
                     ELSE IF ~IS_FIREBASE_LIVE
                     THEN r @@ [userId |-> v.uid, pc |-> "done",
                                resp |-> Json(200, [cases |-> MockCases])]
                     ELSE IF ~dbOk
                     THEN r @@ [userId |-> v.uid, pc |-> "done",
                                resp |-> Json(500, [success |-> FALSE,
                                                    message |-> "Failed to retrieve cases."])]
                     ELSE r @@ [userId |-> v.uid, pc |-> "done",
                                resp |-> Json(200, [success |-> TRUE, cases |-> WithId(WhereUserId(v.uid))])])

\* app.post("/api/ai/analyze-document", upload.single('file'), verifyToken, ...)
\* (second route set). aiOk: generateContent answered with text that parses;
\* caseId: the potential_case_id in that answer.
AnalyzeDocument2 ==
    /\ routeSet = 2
    /\ Len(reqs) < MaxReqs
    /\ \E token \in Tokens :
        LET v == verifyToken(token)
        IN  \E file \in Outcome(v.next /\ IS_FIREBASE_LIVE) :
            \E aiOk \in Outcome(v.next /\ IS_FIREBASE_LIVE /\ file /\ CONFIG.GEMINI_API_KEY) :
            \E caseId \in (IF v.next /\ IS_FIREBASE_LIVE /\ file /\ CONFIG.GEMINI_API_KEY /\ aiOk
                           THEN PotentialCaseIds ELSE {0}) :
            \E dbOk \in Outcome(v.next /\ IS_FIREBASE_LIVE /\ file /\ CONFIG.GEMINI_API_KEY /\ aiOk) :
            LET r == [route |-> "analyze-document", token |-> token, caseId |-> caseId,
                      field |-> "all", value |-> "s2",
                      userId |-> IF v.next THEN v.uid ELSE NoUser,
                      record |-> CaseRecord2(IF v.next THEN v.uid ELSE NoUser, "s2"), pc |-> "done"]
                failed == Json(500, [success |-> FALSE,
                     message |-> "AI analysis failed due to server error or invalid document."])
            IN  /\ CaseFrame
                /\ UNCHANGED <<mailCalls, now>>
                /\ IF v.next /\ IS_FIREBASE_LIVE /\ file /\ CONFIG.GEMINI_API_KEY /\ aiOk /\ dbOk
                   THEN /\ cases' = SetDoc(cases, caseId, r.record)
                        /\ landed' = Append(landed, Len(reqs) + 1)
                        /\ reqs' = Append(reqs, r @@ [resp |->
                               Json(200, [success |-> TRUE, summary |-> "s2", caseId |-> caseId])])
                   ELSE /\ UNCHANGED <<cases, landed>>
                        /\ reqs' = Append(reqs, r @@ [resp |->
                             IF ~v.next THEN v.resp
                             ELSE IF ~IS_FIREBASE_LIVE
                             THEN Json(200, [summary |-> "Mock Analysis", caseId |-> "CASE-MOCK-001"])
                             ELSE IF ~file
                             THEN Json(400, [success |-> FALSE, message |-> "No file uploaded."])
                             ELSE IF ~CONFIG.GEMINI_API_KEY
                             THEN Json(500, [success |-> FALSE,
                                             message |-> "GEMINI_API_KEY not configured."])
                             ELSE failed])

\* An update route up to the end of "await ref.update({field})": the write
\* lands, or the store rejects it (unreachable, or no such document) and the
\* handler's promise rejects.
UpdateStart(route, field, values) ==
    /\ \E caseId \in TargetIds, value \in values, actor \in Actors :
       \E dbOk \in Outcome(IS_FIREBASE_LIVE) :
        LET r == [route |-> route, caseId |-> caseId, field |-> field, value |-> value,
                  actor |-> actor, overlap |-> InFlight, owner |-> NoUser, mail |-> 0]
        IN  /\ CaseFrame
            /\ UNCHANGED <<mailCalls, now>>
            /\ IF ~IS_FIREBASE_LIVE
               THEN /\ reqs' = Append(reqs, r @@ [pc |-> "done", resp |-> MockMode])
                    /\ UNCHANGED <<cases, landed>>
               ELSE IF ~dbOk \/ caseId \notin DOMAIN cases
               THEN /\ reqs' = Append(reqs, r @@ [pc |-> "rejected", resp |-> NoResponse])
                    /\ UNCHANGED <<cases, landed>>
               ELSE /\ cases' = UpdateDoc(cases, caseId, field, value)
                    /\ landed' = Append(landed, Len(reqs) + 1)
                    /\ reqs' = Append(reqs, r @@ [pc |-> "notify", resp |-> NoResponse])

\* The rest of an update route: ref.get(), the owner's profile, sendMail
\* (not awaited) and res.json({ success: true }).
UpdateFinish(i, subject) ==
        /\ \E dbOk \in BOOLEAN :
           \E relayOk \in Outcome(dbOk /\ MailCredentials /\ EmailOf(cases[reqs[i].caseId].userId) # NoUser) :
            LET clientEmail == EmailOf(cases[reqs[i].caseId].userId)
            IN  /\ CaseFrame
                /\ UNCHANGED <<cases, landed, now>>
                /\ IF ~dbOk
                   THEN /\ reqs' = [reqs EXCEPT ![i].pc = "rejected"]
                        /\ UNCHANGED mailCalls
                   ELSE /\ mailCalls' =
                            IF clientEmail # NoUser
                            THEN Append(mailCalls, SendMail(clientEmail, subject, reqs[i].value, relayOk))
                            ELSE mailCalls
                        /\ reqs' = [reqs EXCEPT ![i].pc = "done",
                                                ![i].owner = cases[reqs[i].caseId].userId,
                                                ![i].mail = IF clientEmail # NoUser
                                                            THEN Len(mailCalls) + 1 ELSE 0,
                                                ![i].resp = Json(200, [success |-> TRUE])]

\* app.post("/api/cases/update-status") (app.js:1076-1091 and 1476-1497)
UpdateStatus ==
    /\ Len(reqs) < MaxReqs
    /\ UpdateStart("update-status", "status", Statuses)
UpdateStatusNotify ==
    \E i \in InFlight :
        /\ reqs[i].route = "update-status"
        /\ UpdateFinish(i, "Case Update: Status Changed")

\* app.post("/api/cases/update-hearing") (app.js:1059-1074 and 1452-1473)
UpdateHearing ==
    /\ Len(reqs) < MaxReqs
    /\ UpdateStart("update-hearing", "hearingDate", HearingDates)
UpdateHearingNotify ==
    \E i \in InFlight :
        /\ reqs[i].route = "update-hearing"
        /\ UpdateFinish(i, "Case Update: New Hearing Date")

\* time passes: the clock moves on from a value that names a stored case or
\* stamps a note
Tick ==
    /\ now < MaxClock
    /\ \/ now \in DOMAIN cases
       \/ \E i \in 1..Len(reqs) : reqs[i].route = "add-note" /\ reqs[i].time = now
    /\ now' = now + 1
    /\ CaseFrame
    /\ UNCHANGED <<cases, reqs, landed, mailCalls>>

\* A running server: either route set, live or mock; in the store a case
\* saved at clock 0 by u1, who has a profile with an email; u2 has none.
Init ==
    /\ routeSet \in {1, 2}
    /\ IS_FIREBASE_LIVE \in BOOLEAN
    /\ CONFIG \in {c \in Configs : c.GEMINI_API_KEY /\ c.INDIAN_KANOON_TOKEN /\ c.EMAIL = c.NODEMAILER_PASS}
    /\ aiCall = [op |-> "none"]
    /\ aiRet = NotCalled
    /\ aiResp = NoResponse
    /\ extCalls = <<>>
    /\ accounts = <<>>
    /\ MOCK_DB = <<>>
    /\ mailCalls = <<>>
    /\ authCall = [op |-> "none"]
    /\ authResp = NoResponse
    /\ users = IF IS_FIREBASE_LIVE THEN [u \in {"u1"} |-> ProfileRecord("Asha", "a@x.in", "Litigant")]
               ELSE <<>>
    /\ cases = IF IS_FIREBASE_LIVE
               THEN [c \in {0} |-> [caseId |-> 0, userId |-> "u1", summary |-> "s1",
                                    status |-> "Submitted", notes |-> <<>>,
                                    hearingDate |-> "null", createdAt |-> 0]]
               ELSE <<>>
    /\ reqs = <<>>
    /\ landed = <<>>
    /\ now = 1

Next ==
    \/ SaveCase
    \/ GetCases
    \/ AllCases
    \/ AddNote
    \/ ListCases2
    \/ AnalyzeDocument2
    \/ UpdateStatus
    \/ UpdateStatusNotify
    \/ UpdateHearing
    \/ UpdateHearingNotify
    \/ Tick

Spec == Init /\ [][Next]_vars

(***************************************************************************)
(* Properties of the case store (under Spec)                               *)
(***************************************************************************)
Requests == 1..Len(reqs)
RouteReqs(route) == {i \in Requests : reqs[i].route = route}

\* request i writes the given field of case c: save-case writes every field
Writes(i, c, field) ==
    /\ reqs[i].caseId = c
    /\ reqs[i].field \in {field, "all"}

\* the request whose write to the field of case c was the last to land among
\* the first n landed writes; 0 if there is none
LastWrite(c, field, n) ==
    LET S == {k \in 1..n : Writes(landed[k], c, field)}
    IN  IF S = {} THEN 0 ELSE landed[CHOOSE k \in S : \A j \in S : j <= k]

\* listing l answered with the cases of the store
Listed(l) ==
    /\ reqs[l].route \in {"get-cases", "cases"}
    /\ reqs[l].pc = "done"
    /\ reqs[l].resp.status = 200

\* status update a completed before listing l was served, no other status
\* write to its case landed in between, and l lists for the case's owner
ListedAfterUpdate(l, a) ==
    /\ Listed(l)
    /\ a \in reqs[l].doneBefore
    /\ LastWrite(reqs[a].caseId, "status", reqs[l].at) = a
    /\ LastWrite(reqs[a].caseId, "userId", Len(landed)) = LastWrite(reqs[a].caseId, "userId", reqs[l].at)
    /\ cases[reqs[a].caseId].userId = reqs[l].userId

\* C7: a listing for a case's owner, served after a status update of that case
\* has completed with no other status write in between, contains the case
\* with the status of that update.
C7_ListingShowsNewStatus ==
    \A l \in Requests, a \in RouteReqs("update-status") :
        ListedAfterUpdate(l, a) =>
            /\ reqs[a].caseId \in DOMAIN reqs[l].resp.body.cases
            /\ reqs[l].resp.body.cases[reqs[a].caseId].status = reqs[a].value

C7_Witness ==
    \E l \in Requests, a \in RouteReqs("update-status") :
        /\ ListedAfterUpdate(l, a)
        /\ reqs[l].resp.body.cases[reqs[a].caseId].status = reqs[a].value
        /\ reqs[a].value # "Submitted"

\* h and s ran concurrently: one started while the other was in flight
Overlapped(h, s) == h \in reqs[s].overlap \/ s \in reqs[h].overlap

\* an update-hearing h and an update-status s of the same case have both
\* completed, and theirs are the last writes to the two fields
BothCompleted(h, s) ==
    /\ reqs[h].caseId = reqs[s].caseId
    /\ reqs[h].pc = "done" /\ reqs[s].pc = "done"
    /\ LastWrite(reqs[h].caseId, "hearingDate", Len(landed)) = h
    /\ LastWrite(reqs[s].caseId, "status", Len(landed)) = s

\* C8: once an update-hearing(d) and an update-status(s) of the same case
\* have both completed, in whatever order their steps ran, the stored case
\* has hearing date d and status s.
C8_NoLostUpdate ==
    \A h \in RouteReqs("update-hearing"), s \in RouteReqs("update-status") :
        BothCompleted(h, s) =>
            /\ cases[reqs[h].caseId].hearingDate = reqs[h].value
            /\ cases[reqs[s].caseId].status = reqs[s].value

C8_Witness ==
    \E h \in RouteReqs("update-hearing"), s \in RouteReqs("update-status") :
        /\ BothCompleted(h, s)
        /\ Overlapped(h, s)
        /\ cases[reqs[h].caseId].hearingDate = reqs[h].value
        /\ cases[reqs[s].caseId].status = reqs[s].value

\* two status updates of the same case with different values have both completed
RacedStatus(a, b) ==
    /\ a # b
    /\ reqs[a].caseId = reqs[b].caseId
    /\ reqs[a].value # reqs[b].value
    /\ reqs[a].pc = "done" /\ reqs[b].pc = "done"

\* C9: once two status updates of one case with different values have both
\* completed, and no third status write landed after them, the stored status
\* is the value of the one whose write landed last, one of the two values.
C9_LastWriteWins ==
    \A a \in RouteReqs("update-status"), b \in RouteReqs("update-status") :
        (RacedStatus(a, b) /\ LastWrite(reqs[a].caseId, "status", Len(landed)) \in {a, b}) =>
            /\ cases[reqs[a].caseId].status
                 = reqs[LastWrite(reqs[a].caseId, "status", Len(landed))].value
            /\ cases[reqs[a].caseId].status \in {reqs[a].value, reqs[b].value}

\* the write that landed first completes last, and the other value is stored
C9_Witness ==
    \E a \in RouteReqs("update-status"), b \in RouteReqs("update-status") :
        /\ RacedStatus(a, b)
        /\ Overlapped(a, b)
        /\ a < b
        /\ cases[reqs[a].caseId].status = reqs[b].value

\* a response that reports a failure
FailureJson(resp) ==
    /\ resp.status # 0
    /\ "success" \in DOMAIN resp.body /\ resp.body.success = FALSE
    /\ "message" \in DOMAIN resp.body

\* an external call of request i failed
ExternalFailed(i) == reqs[i].pc = "rejected" \/ reqs[i].resp.status = 500

\* C10: every request in which a call of an external service failed ends with
\* a JSON response carrying success false and a message.
C10_FailureAnswered ==
    \A i \in Requests : ExternalFailed(i) => reqs[i].pc = "done" /\ FailureJson(reqs[i].resp)

(***************************************************************************)
(* Properties of registration and login (under SpecAuth)                   *)
(***************************************************************************)
RegisterSucceededLive ==
    /\ authCall.op = "register"
    /\ IS_FIREBASE_LIVE
    /\ authResp.body.success

\* C1: when a registration in live mode reports success, a profile record
\* keyed by the new user's id holds the submitted role and zeroed stats, and
\* the request made exactly one welcome-email send, to the submitted address.
C1_RegistrationCreatesProfile ==
    RegisterSucceededLive =>
        /\ \E i \in AccountsWith(authCall.email) :
            LET uid == accounts[i].uid
            IN  /\ HasDoc(users, uid)
                /\ "role" \in DOMAIN users[uid]
                /\ users[uid].role = authCall.role
                /\ "stats" \in DOMAIN users[uid]
                /\ users[uid].stats = ZeroStats
        /\ Len(mailCalls) = authCall.mailsBefore + 1
        /\ mailCalls[Len(mailCalls)].to = authCall.email

\* the password of a login does not match the account registered for its email
WrongPassword ==
    /\ authCall.op = "login"
    /\ IF IS_FIREBASE_LIVE
       THEN AccountsWith(authCall.email) # {} /\ SignIn(authCall.email, authCall.password) = {}
       ELSE /\ \E i \in 1..Len(MOCK_DB) : MOCK_DB[i].email = authCall.email
            /\ MockFind(authCall.email, authCall.password) = 0

\* C2: a login whose password does not match the account registered for the
\* email is answered with success false, without a user and without a token,
\* in live and in mock mode and by both login handlers.
C2_WrongPasswordRejected ==
    WrongPassword =>
        /\ authResp.body.success = FALSE
        /\ "user" \notin DOMAIN authResp.body
        /\ "token" \notin DOMAIN authResp.body

(***************************************************************************)
(* Properties of the search and AI adapters (under SpecAI)                 *)
(***************************************************************************)
\* the search call went upstream and failed: it threw, or its data has no
\* document list under the key the handler reads
SearchFailed(key) ==
    /\ aiCall.op \in {"search", "legal-research"}
    /\ aiCall.up # NotCalled
    /\ \/ aiCall.up.k = "throw"
       \/ aiCall.up.k = "data" /\ aiCall.up.key # key

\* C3: whenever the upstream judgment-search call fails, the search answers
\* with exactly the two-item fallback list and never with an error.
C3_FailureYieldsFallback ==
    /\ (aiCall.op = "search" /\ SearchFailed("docs"))
         => aiResp = Json(200, [results |-> FallbackList])
    /\ (aiCall.op = "legal-research" /\ SearchFailed("results"))
         => aiResp = Json(200, [results |-> FallbackList])

\* the response texts the adapter received and tried to parse in this call
ParsedTexts ==
    (IF "sdk" \in DOMAIN aiCall /\ aiCall.sdk.k = "text" /\ aiCall.sdk.text # <<>>
     THEN {aiCall.sdk.text} ELSE {})
    \cup (IF "rest" \in DOMAIN aiCall /\ aiCall.rest.k = "data"
          THEN {RestText(aiCall.rest.data)} ELSE {})

JsonOp == aiCall.op \in {"upload", "analyze"} /\ aiRet # NotCalled

\* C4: for analyzeDocument and analyzeSwot, every upstream response text that
\* does not parse as JSON is found unchanged inside the summary field of the
\* returned object.
C4_RawTextInSummary ==
    JsonOp =>
        \A raw \in ParsedTexts :
            ~JSONParse(Cleaned(raw)).ok =>
                /\ aiRet.k = "return"
                /\ aiRet.val.t = "object"
                /\ "summary" \in DOMAIN aiRet.val
                /\ Contains(aiRet.val.summary, raw)

\* the SDK text is a JSON object {"summary": c} between an opening "FENCE json" and a
\* closing FENCE
FencedObject(text, c) == text = <<FENCE, "json">> \o ObjectText(c) \o <<FENCE>>
SdkJsonCall == JsonOp /\ "sdk" \in DOMAIN aiCall /\ aiCall.sdk.k = "text"

AdapterOp == aiCall.op \in {"upload", "chat", "analyze"} /\ aiRet # NotCalled

\* the text in which a returned value describes itself
Description(v) ==
    IF v.t = "string" THEN v.s
    ELSE IF v.t = "object" /\ "summary" \in DOMAIN v THEN v.summary
    ELSE <<>>

\* C6: processDocument, chatAI and analyzeCase never throw to their caller:
\* with the key missing, with the SDK call and the REST call failing, and
\* with malformed responses, each returns a value, and when the REST call
\* failed or the key is missing that value is a string or object describing
\* the error.
C6_AdapterNeverThrows ==
    AdapterOp =>
        /\ aiRet.k = "return"
        /\ ~CONFIG.GEMINI_API_KEY =>
              \/ Contains(Description(aiRet.val), <<"AI Key Missing">>)
              \/ Contains(Description(aiRet.val), <<"AI Error - key missing">>)
        /\ (aiCall.rest # NotCalled /\ aiCall.rest.k = "throw") =>
              /\ aiRet.val.t \in {"string", "object"}
              /\ Contains(Description(aiRet.val), aiCall.rest.msg)

C6_Witness ==
    /\ aiCall.op = "upload"
    /\ aiRet # NotCalled
    /\ aiCall.sdk.k = "throw"
    /\ aiCall.rest # NotCalled
    /\ aiCall.rest.k = "throw"
    /\ aiRet.k = "return"


(***************************************************************************)
(* Attempts at external services within one request (under SpecAI)         *)
(***************************************************************************)
\* the service behind an endpoint: the SDK and the REST endpoint are two ways
\* to the same generative model
ServiceOf(call) == IF call \in {"gemini-sdk", "gemini-rest"} THEN "gemini" ELSE call
Attempts(S) == Cardinality({k \in 1..Len(extCalls) : extCalls[k] \in S})

\* the SDK attempt of the request gave the adapter nothing to return
SdkUnusable ==
    /\ aiCall.op \in {"upload", "chat", "analyze"}
    /\ "sdk" \in DOMAIN aiCall
    /\ aiCall.sdk # NotCalled
    /\ \/ aiCall.sdk.k = "throw"
       \/ aiCall.op = "upload" /\ SdkText(aiCall.sdk) = <<>>
       \/ aiCall.op = "analyze" /\ SdkBodyCase(aiCall.sdk, FALSE).k = "throw"

\* C11 as stated: within one request no external service is attempted twice.
C11_OneAttemptPerService ==
    \A call \in {"gemini-sdk", "gemini-rest", "kanoon"} :
        Attempts({c \in {"gemini-sdk", "gemini-rest", "kanoon"} : ServiceOf(c) = ServiceOf(call)}) <= 1

\* C11 amended: within one request every endpoint is attempted at most once;
\* the generative model is attempted at most twice, the second time through
\* the REST endpoint and only after the SDK attempt failed or gave unusable
\* output.
C11_OneAttemptPerEndpoint ==
    /\ \A call \in {"gemini-sdk", "gemini-rest", "kanoon"} : Attempts({call}) <= 1
    /\ Attempts({"gemini-rest"}) = 1 => (extCalls = <<"gemini-sdk", "gemini-rest">> /\ SdkUnusable)

\* the SDK attempt failed, the REST attempt failed too, and the request was answered
C11_Witness ==
    /\ extCalls = <<"gemini-sdk", "gemini-rest">>
    /\ aiCall.sdk.k = "throw"
    /\ aiCall.rest.k = "throw"
    /\ aiResp.status = 200

(***************************************************************************)
(* The notifier and its callers (under SpecAuth)                           *)
(***************************************************************************)
\* the last request was a live registration that reached its welcome mail
WelcomeMailSent ==
    /\ authCall.op = "register"
    /\ Len(mailCalls) = authCall.mailsBefore + 1

\* that mail did not go out: no credentials, or the relay failed
WelcomeMailFailed ==
    /\ WelcomeMailSent
    /\ ~mailCalls[Len(mailCalls)].delivered

\* C12: no call of sendMail raises an error in its caller; without relay
\* credentials it dispatches nothing; and a registration whose welcome mail
\* did not go out reports success and keeps its account and profile record.
C12_NotifierNeverFailsCaller ==
    /\ \A k \in 1..Len(mailCalls) :
        /\ ~mailCalls[k].threw
        /\ ~MailCredentials => ~mailCalls[k].dispatched
    /\ WelcomeMailFailed =>
        /\ authResp.status = 200 /\ authResp.body.success = TRUE
        /\ \E i \in AccountsWith(authCall.email) : HasDoc(users, accounts[i].uid)

\* a registration whose welcome mail was dispatched and failed at the relay
C12_Witness ==
    /\ WelcomeMailFailed
    /\ mailCalls[Len(mailCalls)].dispatched
    /\ authResp.body.success = TRUE
    /\ \E i \in AccountsWith(authCall.email) : HasDoc(users, accounts[i].uid)

(***************************************************************************)
(* Guarded routes (under Spec)                                             *)
(***************************************************************************)
\* the handler behind verifyToken ran for request i
HandlerRan(i) == reqs[i].userId # NoUser

\* C13: with the identity provider live, the handler of GET /api/cases runs
\* only for a token the provider validated and sees that token's uid; a
\* request without a token is answered 401 "Authorization required.", one
\* with an invalid token 401 "Invalid or expired token.", the handler not run.
C13_GuardedHandler ==
    IS_FIREBASE_LIVE =>
        \A i \in RouteReqs("cases") :
            /\ HandlerRan(i) => reqs[i].token.k = "valid" /\ reqs[i].userId = reqs[i].token.uid
            /\ reqs[i].token.k = "valid" => HandlerRan(i) /\ reqs[i].resp.status \in {200, 500}
            /\ reqs[i].token.k = "none" =>
                /\ ~HandlerRan(i)
                /\ reqs[i].resp = Json(401, [success |-> FALSE, message |-> "Authorization required."])
            /\ reqs[i].token.k = "invalid" =>
                /\ ~HandlerRan(i)
                /\ reqs[i].resp = Json(401, [success |-> FALSE, message |-> "Invalid or expired token."])

\* one request with a validated token was served, another with a bad token refused
C13_Witness ==
    /\ IS_FIREBASE_LIVE
    /\ \E i \in RouteReqs("cases"), j \in RouteReqs("cases") :
        /\ reqs[i].token.k = "valid" /\ reqs[i].resp.status = 200
        /\ 0 \in DOMAIN reqs[i].resp.body.cases
        /\ reqs[j].token.k = "invalid" /\ reqs[j].resp.status = 401

(***************************************************************************)
(* Created cases (under Spec)                                              *)
(***************************************************************************)
\* the requests that stored a new case record
Creates ==
    {i \in Requests : reqs[i].route \in {"save-case", "analyze-document"}
                      /\ \E k \in 1..Len(landed) : landed[k] = i}

\* C14: every case record, as written by either create path, has status
\* Submitted, an empty notes list and a null hearing date.
C14_CreatedAsSubmitted ==
    \A i \in Creates :
        /\ {"status", "notes", "hearingDate"} \subseteq DOMAIN reqs[i].record
        /\ reqs[i].record.status = "Submitted"
        /\ reqs[i].record.notes = <<>>
        /\ reqs[i].record.hearingDate = "null"

(***************************************************************************)
(* Who may change a case (under Spec)                                      *)
(***************************************************************************)
\* C15: every update-status or update-hearing request whose write reached the
\* store was made by a Lawyer.
C15_OnlyLawyerUpdates ==
    \A k \in 1..Len(landed) :
        reqs[landed[k]].route \in {"update-status", "update-hearing"}
            => reqs[landed[k]].actor = "Lawyer"

\* C16: every stored case record has a userId that names an existing user record.
C16_CaseReferencesUser ==
    \A c \in DOMAIN cases :
        /\ "userId" \in DOMAIN cases[c]
        /\ HasDoc(users, cases[c].userId)

(***************************************************************************)
(* Missing configuration (under SpecAI)                                    *)
(***************************************************************************)
\* the configuration key the operation of the last request needs is absent
NeededKeyMissing ==
    \/ aiCall.op \in {"chat", "analyze"} /\ ~CONFIG.GEMINI_API_KEY
    \/ aiCall.op = "upload" /\ aiCall.file /\ ~CONFIG.GEMINI_API_KEY
    \/ aiCall.op = "search" /\ ~CONFIG.INDIAN_KANOON_TOKEN
    \/ /\ aiCall.op = "legal-research" /\ ~CONFIG.INDIAN_KANOON_TOKEN
       /\ verifyToken(aiCall.token).next

\* C17: an operation whose configuration key is absent answers the caller
\* with a mock or fallback response, never with an error.
C17_MissingKeyDegrades ==
    NeededKeyMissing =>
        /\ aiResp.status = 200
        /\ "success" \in DOMAIN aiResp.body => aiResp.body.success

(***************************************************************************)
(* Save-case responses and listings (under Spec)                           *)
(***************************************************************************)
\* C18: every save-case response with success true carries a caseId, the id
\* under which the record of that request was stored.
C18_SaveCaseReturnsId ==
    \A i \in RouteReqs("save-case") :
        (reqs[i].resp.status = 200 /\ reqs[i].resp.body.success) =>
            /\ "caseId" \in DOMAIN reqs[i].resp.body
            /\ i \in Creates
            /\ reqs[i].resp.body.caseId = reqs[i].record.caseId

\* listing l was answered and no write has reached the store since
FreshListing(l) ==
    /\ reqs[l].route \in {"get-cases", "cases", "all-cases"}
    /\ reqs[l].pc = "done"
    /\ reqs[l].resp.status = 200
    /\ reqs[l].at = Len(landed)

\* the listing holds exactly the stored cases of its user, or with all-cases
\* exactly the stored cases
ListsStored(l) ==
    LET listed == reqs[l].resp.body.cases
        owned == IF reqs[l].route = "all-cases" THEN DOMAIN cases
                 ELSE {x \in DOMAIN cases : cases[x].userId = reqs[l].userId}
    IN  /\ DOMAIN listed = owned
        /\ \A c \in owned : \A f \in DOMAIN cases[c] :
              f \in DOMAIN listed[c] /\ listed[c][f] = cases[c][f]

\* C19 as stated: every answered listing holds exactly the stored cases owned
\* by the user it lists for, and all-cases every stored case.
C19_ListsExactlyOwned ==
    \A l \in Requests : FreshListing(l) => ListsStored(l)

\* C19 amended: the same with the document store live.
C19_ListsExactlyOwnedLive ==
    IS_FIREBASE_LIVE => \A l \in Requests : FreshListing(l) => ListsStored(l)

\* a listing for one user left out a stored case of another user
C19_Witness ==
    /\ IS_FIREBASE_LIVE
    /\ \E l \in Requests :
        /\ FreshListing(l) /\ reqs[l].route # "all-cases"
        /\ ListsStored(l)
        /\ DOMAIN reqs[l].resp.body.cases # {}
        /\ \E c \in DOMAIN cases : cases[c].userId # reqs[l].userId

(***************************************************************************)
(* Notifications of case updates (under Spec)                              *)
(***************************************************************************)
Updates == RouteReqs("update-status") \cup RouteReqs("update-hearing")
HasLanded(i) == \E k \in 1..Len(landed) : landed[k] = i
\* the requests that called sendMail, each with the position of its call
Mailers == {i \in Requests : "mail" \in DOMAIN reqs[i] /\ reqs[i].mail # 0}

\* request i dispatched one notification, to the given address, naming its value
NotifiedOnce(i, email) ==
    /\ i \in Mailers
    /\ \A j \in Mailers : reqs[j].mail = reqs[i].mail => j = i
    /\ Len(mailCalls) = Cardinality(Mailers)
    /\ mailCalls[reqs[i].mail].dispatched
    /\ mailCalls[reqs[i].mail].to = email
    /\ mailCalls[reqs[i].mail].value = reqs[i].value

\* C20 as stated: every update request that wrote to an existing case whose
\* owner has an email on record ends with exactly one notification dispatched
\* to that email, naming the request's value.
C20_UpdateNotifiesOwner ==
    \A i \in Updates :
        (HasLanded(i) /\ reqs[i].pc # "notify" /\ EmailOf(cases[reqs[i].caseId].userId) # NoUser)
            => NotifiedOnce(i, EmailOf(cases[reqs[i].caseId].userId))

\* C20 amended: an update request that completed, with mail credentials
\* configured and the case's owner having an email on record, wrote its field
\* before it dispatched exactly one notification, to the owner's profile
\* email, naming the request's value; no update request dispatches a
\* notification before its write has landed.
C20_CompletedUpdateNotifiesOwner ==
    \A i \in Updates :
        /\ i \in Mailers => HasLanded(i)
        /\ (IS_FIREBASE_LIVE /\ reqs[i].pc = "done" /\ MailCredentials
              /\ EmailOf(reqs[i].owner) # NoUser)
            => HasLanded(i) /\ NotifiedOnce(i, EmailOf(reqs[i].owner))

\* two concurrent updates of one case each notified its owner
C20_Witness ==
    \E i \in Updates, j \in Updates :
        /\ i # j /\ Overlapped(i, j)
        /\ reqs[i].pc = "done" /\ reqs[j].pc = "done"
        /\ NotifiedOnce(i, "a@x.in") /\ NotifiedOnce(j, "a@x.in")

(***************************************************************************)
(* What an update leaves alone (under Spec)                                *)
(***************************************************************************)
\* this step is the arrival of an update-status or update-hearing request
UpdateArrives ==
    /\ Len(reqs') = Len(reqs) + 1
    /\ reqs'[Len(reqs')].route \in {"update-status", "update-hearing"}

\* between the two states nothing changed in the store but the given field of
\* the given case
OnlyFieldChanged(caseId, field) ==
    /\ users' = users
    /\ DOMAIN cases' = DOMAIN cases
    /\ \A c \in DOMAIN cases :
        /\ DOMAIN cases'[c] \subseteq DOMAIN cases[c] \cup {field}
        /\ \A f \in DOMAIN cases[c] :
            /\ f \in DOMAIN cases'[c]
            /\ (c # caseId \/ f # field) => cases'[c][f] = cases[c][f]

\* C21: an update-status request changes only the status field of the case
\* it names and an update-hearing request only its hearingDate field; every
\* other field, every other case and every user record stay as they were,
\* in the step that writes and in the step that notifies.
C21_UpdateChangesOnlyItsField ==
    [][ /\ UpdateArrives =>
            OnlyFieldChanged(reqs'[Len(reqs')].caseId, reqs'[Len(reqs')].field)
        /\ (UpdateStatusNotify \/ UpdateHearingNotify) => (cases' = cases /\ users' = users)
      ]_vars

\* an update has landed on a case that carries a note and still does
C21_Witness ==
    \E i \in Updates :
        /\ HasLanded(i)
        /\ cases[reqs[i].caseId][reqs[i].field] = reqs[i].value
        /\ cases[reqs[i].caseId].notes # <<>>

(***************************************************************************)
(* Notes (under Spec)                                                      *)
(***************************************************************************)
NotesOf(rec) == IF "notes" \in DOMAIN rec THEN rec.notes ELSE <<>>

\* the add-note requests whose write reached case c, in the order they landed
LandedNotes(c) ==
    LET OnCase(i) == reqs[i].route = "add-note" /\ reqs[i].caseId = c
    IN  SelectSeq(landed, OnCase)

\* no create has written case c since the start
NeverRecreated(c) == \A k \in 1..Len(landed) : ~(reqs[landed[k]].field = "all" /\ reqs[landed[k]].caseId = c)

\* C22: under add-note, update-status and update-hearing requests alone, the
\* notes of a case are the {text, timestamp} entries of the successful
\* add-note requests, one entry for each, in the order their writes landed.
C22_NotesAppendOnly ==
    \A c \in DOMAIN cases :
        NeverRecreated(c) =>
            NotesOf(cases[c]) = [k \in 1..Len(LandedNotes(c)) |->
                                    [text |-> reqs[LandedNotes(c)[k]].value,
                                     time |-> reqs[LandedNotes(c)[k]].time]]

(***************************************************************************)
(* Profile updates (under SpecProfile)                                     *)
(***************************************************************************)
\* the last request was a profile update with a name that reported success
NameUpdateSucceeded ==
    /\ authCall.op = "update-profile"
    /\ "name" \in DOMAIN authCall.data
    /\ authResp.body.success

\* the submitted name is in the profile record and is the account's display
\* name, and the fields the update did not name are as before
NameStored ==
    /\ HasDoc(users, authCall.uid)
    /\ users[authCall.uid].name = authCall.data.name
    /\ AccountsOf(authCall.uid) # {}
    /\ \A i \in AccountsOf(authCall.uid) : accounts[i].displayName = authCall.data.name
    /\ HasDoc(authCall.before, authCall.uid)
    /\ \A f \in DOMAIN authCall.before[authCall.uid] \ DOMAIN authCall.data :
          f \in DOMAIN users[authCall.uid]
          /\ users[authCall.uid][f] = authCall.before[authCall.uid][f]

C27_FailedUpdateChangesNothing ==
    (authCall.op = "update-profile" /\ ~authResp.body.success) => users = authCall.before

(***************************************************************************)
(* Shape of the adapter results and the upload route (under SpecAI)        *)
(***************************************************************************)
IsList(v) == "t" \in DOMAIN v /\ v.t = "array"
\* an object with summary, facts and the two named lists
WellShaped(v, lists) ==
    /\ v.t = "object"
    /\ {"summary", "facts"} \cup lists \subseteq DOMAIN v
    /\ \A f \in lists : IsList(v[f])

\* C24: whatever the upstream model returns, processDocument returns an
\* object with summary, facts, judgments (a list) and solutions (a list), and
\* analyzeCase an object with summary, facts, strengths (a list) and
\* weaknesses (a list).
C24_WellShapedResult ==
    /\ (aiCall.op = "upload" /\ aiRet # NotCalled) =>
          aiRet.k = "return" /\ WellShaped(aiRet.val, {"judgments", "solutions"})
    /\ (aiCall.op = "analyze" /\ aiRet # NotCalled) =>
          aiRet.k = "return" /\ WellShaped(aiRet.val, {"strengths", "weaknesses"})

UploadWithFile == aiCall.op = "upload" /\ aiCall.file
\* typeof result === 'string' && result.startsWith("Error")
ErrorString(v) == v.t = "string" /\ v.s # <<>> /\ v.s[1] = "Error"
UploadSucceeded == aiResp = Json(200, [success |-> TRUE, data |-> aiRet.val])
BothPathsFailed ==
    /\ aiCall.sdk # NotCalled /\ aiCall.sdk.k = "throw"
    /\ aiCall.rest # NotCalled /\ aiCall.rest.k = "throw"

Created(i) ==
    /\ reqs[i].route = "save-case"
    /\ reqs[i].pc = "done"
    /\ reqs[i].resp # MockMode
    /\ reqs[i].resp.body.success
\* the clock value create call i read
ClockRead(i) == reqs[i].record.createdAt
\* the stored case c holds what create call i submitted
HoldsContentOf(c, i) ==
    /\ cases[c].userId = reqs[i].userId
    /\ cases[c].summary = reqs[i].value
    /\ cases[c].createdAt = ClockRead(i)

\* the last create call that read clock value t and reported success
LastCreated(t) ==
    CHOOSE k \in Requests :
        /\ Created(k) /\ ClockRead(k) = t
        /\ \A m \in Requests : (Created(m) /\ ClockRead(m) = t) => m <= k

\* C25: create calls that read the same clock value allocate the same case
\* id, and after they reported success the store holds one case under that
\* id, with the content of the last of them; the content of an earlier call
\* that differs from it is in no stored case.
C25_SameClockSameId ==
    \A i, j \in Requests :
        (i < j /\ Created(i) /\ Created(j) /\ ClockRead(i) = ClockRead(j)) =>
            LET last == LastCreated(ClockRead(i))
                id == reqs[j].resp.body.caseId
            IN  /\ reqs[i].resp.body.caseId = id
                /\ HasDoc(cases, id)
                /\ HoldsContentOf(id, last)
                /\ \A c \in DOMAIN cases : cases[c].createdAt = ClockRead(i) => c = id
                /\ reqs[i].userId # reqs[last].userId =>
                      \A c \in DOMAIN cases : ~HoldsContentOf(c, i)

\* two create calls of different users read the same clock value and both
\* reported success
C25_Witness ==
    \E i, j \in Requests :
        /\ i < j /\ Created(i) /\ Created(j)
        /\ ClockRead(i) = ClockRead(j)
        /\ reqs[i].userId # reqs[j].userId
        /\ HasDoc(cases, reqs[j].resp.body.caseId)
        /\ cases[reqs[j].resp.body.caseId].userId = reqs[j].userId

(***************************************************************************)
(* Failed registrations (under SpecAuth)                                   *)
(***************************************************************************)
\* the step is a registration in live mode that is answered success false
RegistrationFails ==
    /\ authCall'.op = "register"
    /\ IS_FIREBASE_LIVE
    /\ ~authResp'.body.success

\* C26: a registration in live mode that returns success false has created
\* neither an identity-provider account nor a profile record.
C26_FailedRegistrationCreatesNothing ==
    [][RegistrationFails => (accounts' = accounts /\ users' = users)]_vars

(***************************************************************************)
(* Notifications of concurrent status updates (under Spec)                 *)
(***************************************************************************)
\* a and b are concurrent update-status calls on one case with different
\* values; both completed and dispatched their notification, b's after a's
RacedNotifications(a, b) ==
    /\ a \in RouteReqs("update-status") /\ b \in RouteReqs("update-status")
    /\ reqs[a].caseId = reqs[b].caseId
    /\ reqs[a].value # reqs[b].value
    /\ Overlapped(a, b)
    /\ reqs[a].pc = "done" /\ reqs[b].pc = "done"
    /\ a \in Mailers /\ b \in Mailers
    /\ mailCalls[reqs[a].mail].dispatched /\ mailCalls[reqs[b].mail].dispatched
    /\ reqs[a].mail < reqs[b].mail

\* C28: after two concurrent update-status calls on one case with different
\* values, the status named in the last notification dispatched for the case
\* is the status the store holds.
C28_LastNotificationNamesStoredStatus ==
    \A a, b \in Requests :
        RacedNotifications(a, b) =>
            mailCalls[reqs[b].mail].value = cases[reqs[b].caseId].status

(***************************************************************************)
(* The in-memory user list of mock mode (under SpecAuth)                   *)
(***************************************************************************)
\* entry i of the list was registered with this email and password
RegisteredWith(i, email, password) ==
    /\ i \in 1..Len(MOCK_DB)
    /\ MOCK_DB[i].email = email
    /\ MOCK_DB[i].password = password

\* the step is a call of the first route set's register or login in mock mode
MockStep(op) ==
    /\ ~IS_FIREBASE_LIVE
    /\ authCall'.op = op
    /\ authCall'.set = 1

\* C30: in mock mode every register call appends its entry to the user list,
\* duplicates included, and a login succeeds exactly if some entry of the
\* list has its email and password, returns the earliest such entry, and
\* leaves the list as it was.
C30_MockLoginFindsEarliest ==
    [][/\ MockStep("register") =>
            MOCK_DB' = Append(MOCK_DB, [name |-> authCall'.name, email |-> authCall'.email,
                                        password |-> authCall'.password, role |-> authCall'.role])
       /\ MockStep("login") =>
            /\ MOCK_DB' = MOCK_DB
            /\ authResp'.body.success <=>
                  \E i \in 1..Len(MOCK_DB) : RegisteredWith(i, authCall'.email, authCall'.password)
            /\ authResp'.body.success =>
                  \E i \in 1..Len(MOCK_DB) :
                      /\ RegisteredWith(i, authCall'.email, authCall'.password)
                      /\ \A j \in 1..(i - 1) : ~RegisteredWith(j, authCall'.email, authCall'.password)
                      /\ authResp'.body.user = MOCK_DB[i]]_vars

\* a login succeeded after two registrations with its email and password
\* that differ in role, and returned the first of them
C30_Witness ==
    /\ ~IS_FIREBASE_LIVE
    /\ authCall.op = "login" /\ authCall.set = 1
    /\ authResp.body.success
    /\ Len(MOCK_DB) >= 2
    /\ RegisteredWith(1, authCall.email, authCall.password)
    /\ RegisteredWith(2, authCall.email, authCall.password)
    /\ MOCK_DB[1] # MOCK_DB[2]
    /\ authResp.body.user = MOCK_DB[1]
====
